---- MODULE Spec2Model ----
(***************************************************************************)
(* A model of the RegularApp automata library: the Regex syntax tree and   *)
(* its brute-force matcher (regex.rs), the NFA engine and its Thompson     *)
(* combinators (nfa.rs), the DFA engine (dfa.rs) and the conversions       *)
(* between them (conversions.rs).                                          *)
(*                                                                         *)
(* Every library function is a pure function of its operands, so each is   *)
(* an operator computed the way the code computes it, and each action of   *)
(* a specification is one call of a library function on operands that      *)
(* Init draws from a bounded universe.                                     *)
(*                                                                         *)
(* Values.  A HashSet is a set; a HashMap is a function whose DOMAIN is    *)
(* the set of keys present (a missing key is a key outside DOMAIN).  An    *)
(* automaton is a record with the fields of the Rust struct.  A panic      *)
(* (assert!, expect) is a record [panic |-> message] returned in place of  *)
(* the value, and is propagated by every caller.                           *)
(***************************************************************************)
EXTENDS Integers, Sequences, FiniteSets, TLC

VARIABLES regex, nfa, nfa2, dfa, dfa2, seed, out

vars == <<regex, nfa, nfa2, dfa, dfa2, seed, out>>

(***************************************************************************)
(* Bounds of the operand universes.                                        *)
(***************************************************************************)
\* longest input string
MaxLen == 3
\* most nodes of a Regex tree
MaxRegexSize == 4
\* largest hash-iteration seed tried for the nested relabel_states calls
MaxSeed == 1
\* most edges (symbol and epsilon edges together) of an NFA operand
MaxEdges == 2

\* the symbols automata and strings are built over
Chars == {"a", "b"}
\* the alphabet of the regex pipeline
Sigma == {"a", "b"}

\* "no value yet": the call that fills the variable has not been made
NoCall == [nocall |-> TRUE]

\* Option: None, and Some(v)
None == [none |-> TRUE]

Some(v) == [some |-> v]

IsSome(x) == "some" \in DOMAIN x

\* a panic with the message of the assert!/expect that raised it; built is
\* the set of states of the result that the call had constructed by then
Panic(msg, built) == [panic |-> msg, built |-> built]

\* a value returned by a call that can panic and whose result is not an
\* automaton (a set, a state, a boolean)
Ok(v) == [ok |-> v]

\* x is an automaton record, Ok(v), None or a panic
IsPanic(x) == "panic" \in DOMAIN x

\* the Rust unit value (), as a state label
Unit == <<>>

\* all strings over alphabet A of length at most n
StringsUpTo(A, n) == UNION {[1..k -> A] : k \in 0..n}

(***************************************************************************)
(* Iteration order of a HashSet.  The order in which a HashSet yields its  *)
(* elements is unspecified; IterOrder(S, h) is the h-th enumeration of S   *)
(* (h read in the factorial number system), so h \in 0 .. |S|!-1 gives     *)
(* every order.                                                            *)
(***************************************************************************)
RECURSIVE Nth(_, _)
Nth(S, k) ==
    LET x == CHOOSE y \in S : TRUE
    IN  IF k = 0 THEN x ELSE Nth(S \ {x}, k - 1)

RECURSIVE IterOrder(_, _)
IterOrder(S, h) ==
    IF S = {} THEN <<>>
    ELSE LET n == Cardinality(S)
             x == Nth(S, h % n)
         IN  <<x>> \o IterOrder(S \ {x}, h \div n)

\* the elements of S in some fixed order, for loops whose result does not
\* depend on the order
SetToSeq(S) == IterOrder(S, 0)

RECURSIVE Factorial(_)
Factorial(n) == IF n <= 1 THEN 1 ELSE n * Factorial(n - 1)

\* the sequence s reversed
RECURSIVE Reverse(_)
Reverse(s) == IF s = <<>> THEN <<>> ELSE Reverse(Tail(s)) \o <<Head(s)>>

(***************************************************************************)
(* dfa.rs: the DFA engine.                                                 *)
(* A Dfa is [states, alphabet, start_state, transitions, accepting] with   *)
(* transitions a function on the set of (state, char) keys present.        *)
(***************************************************************************)
Dfa(states, alphabet, start_state, transitions, accepting) ==
    [states |-> states, alphabet |-> alphabet, start_state |-> start_state,
     transitions |-> transitions, accepting |-> accepting]

\* Dfa::transition: the table entry, or the panic of expect("Invalid DFA")
Dfa_transition(D, state, char) ==
    IF <<state, char>> \in DOMAIN D.transitions
    THEN Ok(D.transitions[<<state, char>>])
    ELSE Panic("Invalid DFA", {})

Dfa_validate(D) ==
    /\ D.start_state \in D.states
    /\ \A state \in D.states : \A char \in D.alphabet :
          /\ <<state, char>> \in DOMAIN D.transitions
          /\ D.transitions[<<state, char>>] \in D.states
    /\ \A state \in D.accepting : state \in D.states

\* the loop of Dfa::parse_string: the state after following string from
\* state, or the panic of the first missing transition
RECURSIVE Dfa_run(_, _, _)
Dfa_run(D, state, string) ==
    IF string = <<>> THEN Ok(state)
    ELSE LET next == Dfa_transition(D, state, Head(string))
         IN  IF IsPanic(next) THEN next ELSE Dfa_run(D, next.ok, Tail(string))

\* Dfa::parse_string: runs the loop and returns (); the function has no
\* return type and never reads self.accepting.  The value returned is
\* written as the string "()".
Dfa_parse_string(D, string) ==
    LET state == Dfa_run(D, D.start_state, string)
    IN  IF IsPanic(state) THEN state ELSE Ok("()")

\* Dfa::reachable_states: to_visit is the VecDeque used as a stack
\* (push_front, pop_front); the result does not depend on the order in
\* which the alphabet is iterated
RECURSIVE Dfa_reachable_loop(_, _, _)
Dfa_reachable_loop(D, result, to_visit) ==
    IF to_visit = <<>> THEN Ok(result)
    ELSE LET state == Head(to_visit)
             chars == SetToSeq(D.alphabet)
         IN  IF state \in result THEN Dfa_reachable_loop(D, result, Tail(to_visit))
             ELSE IF \E c \in D.alphabet : <<state, c>> \notin DOMAIN D.transitions
             THEN Panic("Invalid DFA", {})
             ELSE Dfa_reachable_loop(D, result \cup {state},
                      Reverse([i \in 1..Len(chars) |-> D.transitions[<<state, chars[i]>>]])
                          \o Tail(to_visit))

Dfa_reachable_states(D) == Dfa_reachable_loop(D, {}, <<D.start_state>>)

\* mutant: every state is looked at, reachable or not
Dfa_is_empty_all_states(D) ==
    Ok(\A state \in D.states : state \notin D.accepting)

Dfa_is_empty(D) ==
    LET reachable == Dfa_reachable_states(D)
    IN  IF IsPanic(reachable) THEN reachable
        ELSE Ok(\A state \in reachable.ok : state \notin D.accepting)

Dfa_is_complete(D) ==
    LET reachable == Dfa_reachable_states(D)
    IN  IF IsPanic(reachable) THEN reachable
        ELSE Ok(\A state \in reachable.ok : state \in D.accepting)

\* mutant: the accepting set is copied, not complemented
Dfa_complement_copied(D) ==
    Dfa(D.states, D.alphabet, D.start_state, D.transitions, D.accepting)

Dfa_complement(D) ==
    Dfa(D.states, D.alphabet, D.start_state, D.transitions, D.states \ D.accepting)

\* mutant: the ids start at 1
Dfa_relabel_states_from_one(D, h) ==
    LET reached == Dfa_reachable_states(D)
        reachable == reached.ok
        order == IterOrder(reachable, h)
        map_to_new == [s \in reachable |-> CHOOSE i \in 1..Len(order) : order[i] = s]
        kept == {k \in DOMAIN D.transitions : k[1] \in reachable}
    IN  IF IsPanic(reached) THEN reached
        ELSE Dfa(1..Len(order), D.alphabet, map_to_new[D.start_state],
                 [nk \in {<<map_to_new[k[1]], k[2]>> : k \in kept} |->
                     map_to_new[D.transitions[
                         CHOOSE k \in kept : <<map_to_new[k[1]], k[2]>> = nk]]],
                 {map_to_new[s] : s \in D.accepting \cap reachable})

\* Dfa::relabel_states; h fixes the order in which the HashSet of reachable
\* states is enumerated by zip
Dfa_relabel_states(D, h) ==
    LET reached == Dfa_reachable_states(D)
    IN  IF IsPanic(reached) THEN reached
        ELSE
        LET reachable == reached.ok
            order == IterOrder(reachable, h)
            map_to_new == [s \in reachable |->
                              (CHOOSE i \in 1..Len(order) : order[i] = s) - 1]
            states == {i - 1 : i \in 1..Len(order)}
            kept == {k \in DOMAIN D.transitions : k[1] \in reachable}
            new_key(k) == <<map_to_new[k[1]], k[2]>>
            transitions == [nk \in {new_key(k) : k \in kept} |->
                               LET k == CHOOSE k \in kept : new_key(k) = nk
                               IN  map_to_new[D.transitions[k]]]
            accepting == {map_to_new[s] : s \in D.accepting \cap reachable}
        IN  IF \E k \in kept : D.transitions[k] \notin reachable
            THEN Panic("Transition from reachable to unreachable state", states)
            ELSE IF D.start_state \notin reachable
            THEN Panic("Start state is not reachable", states)
            ELSE Dfa(states, D.alphabet, map_to_new[D.start_state], transitions, accepting)

\* Dfa::empty and Dfa::complete: one state (), looping on every symbol
Dfa_empty(alphabet) ==
    Dfa({Unit}, alphabet, Unit, [k \in {Unit} \X alphabet |-> Unit], {})

Dfa_complete(alphabet) ==
    Dfa({Unit}, alphabet, Unit, [k \in {Unit} \X alphabet |-> Unit], {Unit})

\* mutant: the combinator is applied to the operands' answers swapped
Dfa_product_swapped(first, second, func) ==
    IF first.alphabet # second.alphabet
    THEN Panic("Cannot product DFA with different alphabets", {})
    ELSE Dfa(first.states \X second.states, first.alphabet,
             <<first.start_state, second.start_state>>,
             [k \in (first.states \X second.states) \X first.alphabet |->
                 <<first.transitions[<<k[1][1], k[2]>>],
                   second.transitions[<<k[1][2], k[2]>>]>>],
             {p \in first.states \X second.states :
                 func[<<p[2] \in second.accepting, p[1] \in first.accepting>>]})

\* mutant: the assertion lets a first alphabet that is a subset pass
Dfa_product_subset(first, second, func) ==
    IF ~(first.alphabet \subseteq second.alphabet)
    THEN Panic("Cannot product DFA with different alphabets", {})
    ELSE Dfa(first.states \X second.states, first.alphabet,
             <<first.start_state, second.start_state>>,
             [k \in (first.states \X second.states) \X first.alphabet |->
                 <<first.transitions[<<k[1][1], k[2]>>],
                   second.transitions[<<k[1][2], k[2]>>]>>],
             {p \in first.states \X second.states :
                 func[<<p[1] \in first.accepting, p[2] \in second.accepting>>]})

\* Dfa::product; func is the acceptance combinator as a function on
\* BOOLEAN \X BOOLEAN
Dfa_product(first, second, func) ==
    IF first.alphabet # second.alphabet
    THEN Panic("Cannot product DFA with different alphabets", {})
    ELSE
    LET new_states == first.states \X second.states
        new_accepting == {p \in new_states :
                            func[<<p[1] \in first.accepting, p[2] \in second.accepting>>]}
    IN  IF \E p \in new_states : \E char \in first.alphabet :
              \/ <<p[1], char>> \notin DOMAIN first.transitions
              \/ <<p[2], char>> \notin DOMAIN second.transitions
        THEN Panic("Invalid DFA", new_states)
        ELSE Dfa(new_states, first.alphabet,
                 <<first.start_state, second.start_state>>,
                 [k \in new_states \X first.alphabet |->
                     <<first.transitions[<<k[1][1], k[2]>>],
                       second.transitions[<<k[1][2], k[2]>>]>>],
                 new_accepting)

Or == [p \in BOOLEAN \X BOOLEAN |-> p[1] \/ p[2]]
And == [p \in BOOLEAN \X BOOLEAN |-> p[1] /\ p[2]]
AndNot == [p \in BOOLEAN \X BOOLEAN |-> p[1] /\ ~p[2]]
NotEqual == [p \in BOOLEAN \X BOOLEAN |-> p[1] # p[2]]

Dfa_union(first, second) == Dfa_product(first, second, Or)

Dfa_intersection(first, second) == Dfa_product(first, second, And)

Dfa_difference(first, second) == Dfa_product(first, second, AndNot)

Dfa_symmetric_difference(first, second) == Dfa_product(first, second, NotEqual)

\* mutant: only the strings of self that other rejects are looked for
Dfa_equivalent_one_sided(self, other) ==
    LET product == Dfa_difference(self, other)
    IN  IF IsPanic(product) THEN product ELSE Dfa_is_empty(product)

Dfa_equivalent(self, other) ==
    LET product == Dfa_symmetric_difference(self, other)
    IN  IF IsPanic(product) THEN product ELSE Dfa_is_empty(product)

(***************************************************************************)
(* nfa.rs: the NFA engine.                                                 *)
(* An Nfa is [states, alphabet, start_state, transitions,                  *)
(* epsilon_transitions, accepting]; transitions maps the (state, char)     *)
(* keys present to sets of states, epsilon_transitions the states present  *)
(* to sets of states.                                                      *)
(***************************************************************************)
Nfa(states, alphabet, start_state, transitions, epsilon_transitions, accepting) ==
    [states |-> states, alphabet |-> alphabet, start_state |-> start_state,
     transitions |-> transitions, epsilon_transitions |-> epsilon_transitions,
     accepting |-> accepting]

\* Nfa::transition: Option of the table entry
Nfa_transition(N, state, char) ==
    IF <<state, char>> \in DOMAIN N.transitions
    THEN Some(N.transitions[<<state, char>>])
    ELSE None

\* the states one char-step away from state (nothing for a missing key)
Nfa_step(N, state, char) ==
    LET t == Nfa_transition(N, state, char)
    IN  IF IsSome(t) THEN t.some ELSE {}

\* the epsilon neighbours of state (nothing for a missing key)
Nfa_epsilon_step(N, state) ==
    IF state \in DOMAIN N.epsilon_transitions THEN N.epsilon_transitions[state] ELSE {}

Nfa_validate(N) ==
    /\ N.start_state \in N.states
    /\ \A state \in N.states : \A char \in N.alphabet :
          \A out_state \in Nfa_step(N, state, char) : out_state \in N.states
    /\ \A state \in N.states :
          \A out_state \in Nfa_epsilon_step(N, state) : out_state \in N.states
    /\ \A state \in N.accepting : state \in N.states

\* Nfa::epsilon_closure: to_visit is the VecDeque used as a stack; the
\* result does not depend on the order in which neighbours are pushed
RECURSIVE Nfa_epsilon_closure_loop(_, _, _)
Nfa_epsilon_closure_loop(N, result, to_visit) ==
    IF to_visit = <<>> THEN result
    ELSE LET state == Head(to_visit)
         IN  IF state \in result
             THEN Nfa_epsilon_closure_loop(N, result, Tail(to_visit))
             ELSE Nfa_epsilon_closure_loop(N, result \cup {state},
                      Reverse(SetToSeq(Nfa_epsilon_step(N, state))) \o Tail(to_visit))

\* start is the iterator's items as a set (they are pushed in turn)
Nfa_epsilon_closure(N, start) ==
    Nfa_epsilon_closure_loop(N, {}, Reverse(SetToSeq(start)))

\* Nfa::reachable_states: follows the transitions on the symbols of the
\* alphabet, then the epsilon transitions
RECURSIVE Nfa_reachable_loop(_, _, _)
Nfa_reachable_loop(N, result, to_visit) ==
    IF to_visit = <<>> THEN result
    ELSE LET state == Head(to_visit)
             by_char == UNION {Nfa_step(N, state, char) : char \in N.alphabet}
         IN  IF state \in result
             THEN Nfa_reachable_loop(N, result, Tail(to_visit))
             ELSE Nfa_reachable_loop(N, result \cup {state},
                      Reverse(SetToSeq(Nfa_epsilon_step(N, state)))
                          \o Reverse(SetToSeq(by_char)) \o Tail(to_visit))

Nfa_reachable_states(N) == Nfa_reachable_loop(N, {}, <<N.start_state>>)

\* Nfa::parse_string: states is the current set of NFA states
RECURSIVE Nfa_parse_loop(_, _, _)
Nfa_parse_loop(N, states, string) ==
    IF string = <<>> THEN states
    ELSE LET immediate_neighbours ==
                 UNION {Nfa_step(N, state, Head(string)) : state \in states}
         IN  Nfa_parse_loop(N, Nfa_epsilon_closure(N, immediate_neighbours),
                            Tail(string))

Nfa_parse_string(N, string) ==
    LET states == Nfa_parse_loop(N, Nfa_epsilon_closure(N, {N.start_state}), string)
    IN  \E state \in states : state \in N.accepting

\* the variants of StarState, ConcatState and UnionState
Start == <<"Start">>
Old(s) == <<"Old", s>>
Left(s) == <<"Left", s>>
Right(s) == <<"Right", s>>
First(s) == <<"First", s>>
Second(s) == <<"Second", s>>

\* a transition table copied under the injection of the variant tag
MapTransitions(transitions, tag) ==
    [nk \in {<<<<tag, k[1]>>, k[2]>> : k \in DOMAIN transitions} |->
        {<<tag, t>> : t \in transitions[<<nk[1][2], nk[2]>>]}]

\* an epsilon table copied under the injection of the variant tag
MapEpsilon(epsilon_transitions, tag) ==
    [ns \in {<<tag, s>> : s \in DOMAIN epsilon_transitions} |->
        {<<tag, t>> : t \in epsilon_transitions[ns[2]]}]

\* the map m after entry(k).or_default().insert(v) for every k in keys
InsertAll(m, keys, v) ==
    [k \in DOMAIN m \cup keys |->
        (IF k \in DOMAIN m THEN m[k] ELSE {}) \cup (IF k \in keys THEN {v} ELSE {})]

\* mutant: no epsilon edge from the accepting states back to the start
Nfa_star_once(N) ==
    Nfa({Start} \cup {Old(s) : s \in N.states}, N.alphabet, Start,
        MapTransitions(N.transitions, "Old"),
        MapEpsilon(N.epsilon_transitions, "Old") @@ (Start :> {Old(N.start_state)}),
        {Start} \cup {Old(s) : s \in N.accepting})

Nfa_star(N) ==
    LET states == {Start} \cup {Old(s) : s \in N.states}
        transitions == MapTransitions(N.transitions, "Old")
        copied == MapEpsilon(N.epsilon_transitions, "Old")
                      @@ (Start :> {Old(N.start_state)})
        epsilon_transitions ==
            InsertAll(copied, {Old(s) : s \in N.accepting}, Old(N.start_state))
        accepting == {Start} \cup {Old(s) : s \in N.accepting}
    IN  Nfa(states, N.alphabet, Start, transitions, epsilon_transitions, accepting)

\* Nfa::relabel_states; h fixes the order in which the HashSet of reachable
\* states is enumerated by zip
Nfa_relabel_states(N, h) ==
    LET reachable == Nfa_reachable_states(N)
        order == IterOrder(reachable, h)
        map_to_new == [s \in reachable |->
                          (CHOOSE i \in 1..Len(order) : order[i] = s) - 1]
        states == {i - 1 : i \in 1..Len(order)}
        kept == {k \in DOMAIN N.transitions : k[1] \in reachable}
        new_key(k) == <<map_to_new[k[1]], k[2]>>
        transitions == [nk \in {new_key(k) : k \in kept} |->
                           LET k == CHOOSE k \in kept : new_key(k) = nk
                           IN  {map_to_new[t] : t \in N.transitions[k]}]
        ekept == DOMAIN N.epsilon_transitions \cap reachable
        epsilon_transitions == [ns \in {map_to_new[s] : s \in ekept} |->
                                   LET s == CHOOSE s \in ekept : map_to_new[s] = ns
                                   IN  {map_to_new[t] : t \in N.epsilon_transitions[s]}]
        accepting == {map_to_new[s] : s \in N.accepting \cap reachable}
    IN  IF \/ \E k \in kept : \E t \in N.transitions[k] : t \notin reachable
           \/ \E s \in ekept : \E t \in N.epsilon_transitions[s] : t \notin reachable
           \/ N.start_state \notin reachable
        THEN Panic("Invalid NFA", states)
        ELSE Nfa(states, N.alphabet, map_to_new[N.start_state], transitions,
                 epsilon_transitions, accepting)

\* the empty HashMap
EmptyMap == [k \in {} |-> {}]

\* nfa::empty, nfa::epsilon: the one state ()
Nfa_empty(alphabet) == Nfa({Unit}, alphabet, Unit, EmptyMap, EmptyMap, {})

Nfa_epsilon(alphabet) == Nfa({Unit}, alphabet, Unit, EmptyMap, EmptyMap, {Unit})

\* nfa::character: states false and true
Nfa_character(alphabet, char) ==
    IF char \notin alphabet
    THEN Panic("Character should be in alphabet", {})
    ELSE Nfa({FALSE, TRUE}, alphabet, FALSE, (<<FALSE, char>> :> {TRUE}), EmptyMap,
             {TRUE})

\* mutant: the alphabets are not compared
Nfa_concatenation_unchecked(left, right) ==
    Nfa({Left(s) : s \in left.states} \cup {Right(s) : s \in right.states},
        left.alphabet, Left(left.start_state),
        MapTransitions(right.transitions, "Right") @@ MapTransitions(left.transitions, "Left"),
        InsertAll(MapEpsilon(right.epsilon_transitions, "Right")
                      @@ MapEpsilon(left.epsilon_transitions, "Left"),
                  {Left(s) : s \in left.accepting}, Right(right.start_state)),
        {Right(s) : s \in right.accepting})

Nfa_concatenation(left, right) ==
    IF left.alphabet # right.alphabet
    THEN Panic("Alphabets must be equal!", {})
    ELSE
    LET states == {Left(s) : s \in left.states} \cup {Right(s) : s \in right.states}
        transitions == MapTransitions(right.transitions, "Right")
                           @@ MapTransitions(left.transitions, "Left")
        copied == MapEpsilon(right.epsilon_transitions, "Right")
                      @@ MapEpsilon(left.epsilon_transitions, "Left")
        epsilon_transitions ==
            InsertAll(copied, {Left(s) : s \in left.accepting}, Right(right.start_state))
    IN  Nfa(states, left.alphabet, Left(left.start_state), transitions,
            epsilon_transitions, {Right(s) : s \in right.accepting})

\* mutant: the states of both operands are injected by First
Nfa_union_collide(first, second) ==
    IF first.alphabet # second.alphabet
    THEN Panic("Alphabets must be equal!", {})
    ELSE
    LET states == {Start} \cup {First(s) : s \in first.states}
                      \cup {First(s) : s \in second.states}
        transitions == MapTransitions(second.transitions, "First")
                           @@ MapTransitions(first.transitions, "First")
        epsilon_transitions ==
            MapEpsilon(second.epsilon_transitions, "First")
                @@ MapEpsilon(first.epsilon_transitions, "First")
                @@ (Start :> {First(first.start_state), First(second.start_state)})
        accepting == {First(s) : s \in first.accepting}
                         \cup {First(s) : s \in second.accepting}
    IN  Nfa(states, first.alphabet, Start, transitions, epsilon_transitions, accepting)

Nfa_union(first, second) ==
    IF first.alphabet # second.alphabet
    THEN Panic("Alphabets must be equal!", {})
    ELSE
    LET states == {Start} \cup {First(s) : s \in first.states}
                      \cup {Second(s) : s \in second.states}
        transitions == MapTransitions(second.transitions, "Second")
                           @@ MapTransitions(first.transitions, "First")
        epsilon_transitions ==
            MapEpsilon(second.epsilon_transitions, "Second")
                @@ MapEpsilon(first.epsilon_transitions, "First")
                @@ (Start :> {First(first.start_state), Second(second.start_state)})
        accepting == {First(s) : s \in first.accepting}
                         \cup {Second(s) : s \in second.accepting}
    IN  Nfa(states, first.alphabet, Start, transitions, epsilon_transitions, accepting)

(***************************************************************************)
(* regex.rs: the Regex tree and its brute-force matcher.                   *)
(* A Regex is a tuple headed by the name of its variant.                   *)
(***************************************************************************)
Empty == <<"Empty">>
Epsilon == <<"Epsilon">>
Character(c) == <<"Character", c>>
Concat(l, r) == <<"Concat", l, r>>
Union(l, r) == <<"Union", l, r>>
Star(r) == <<"Star", r>>

\* the Regex trees of exactly n nodes over the symbols of A
RECURSIVE RegexOfSize(_, _)
RegexOfSize(A, n) ==
    IF n = 1 THEN {Empty, Epsilon} \cup {Character(c) : c \in A}
    ELSE {Star(r) : r \in RegexOfSize(A, n - 1)}
         \cup UNION {UNION {{Concat(l, r), Union(l, r)} :
                                l \in RegexOfSize(A, k), r \in RegexOfSize(A, n - 1 - k)} :
                     k \in 1..(n - 2)}

Regexes == UNION {RegexOfSize(Sigma, n) : n \in 1..MaxRegexSize}

\* a call that never returns: the recursion re-enters itself on the same
\* arguments (until the stack overflows)
Diverges == [diverges |-> TRUE]

IsDiverges(x) == "diverges" \in DOMAIN x

\* Regex::parse_string, returning Ok(bool) or Diverges.  Regex_split_loop is
\* the body of `for i in 0..string.len()+1` of the Concat and Star cases
\* from split point i on; && and the early return are evaluated in the
\* order of the code.
RECURSIVE Regex_parse_string(_, _)
RECURSIVE Regex_split_loop(_, _, _)
Regex_parse_string(r, string) ==
    CASE r[1] = "Empty" -> Ok(FALSE)
      [] r[1] = "Epsilon" -> Ok(string = <<>>)
      [] r[1] = "Character" ->
            Ok((\A i \in 1..Len(string) : string[i] = r[2]) /\ Len(string) = 1)
      [] r[1] = "Concat" -> Regex_split_loop(r, string, 0)
      [] r[1] = "Union" ->
            LET l == Regex_parse_string(r[2], string)
            IN  IF IsDiverges(l) THEN l
                ELSE IF l.ok THEN Ok(TRUE)
                ELSE Regex_parse_string(r[3], string)
      [] r[1] = "Star" -> Regex_split_loop(r, string, 0)

\* mutant: the Star case skips the zero-length split
Regex_split_loop_skip_zero(r, string, i) ==
    IF i > Len(string) THEN Ok(FALSE)
    ELSE
    LET prefix == SubSeq(string, 1, i)
        suffix == SubSeq(string, i + 1, Len(string))
        head == IF r[1] = "Star" /\ i = 0 THEN Ok(FALSE)
                ELSE Regex_parse_string(r[2], prefix)
        tail == IF r[1] = "Concat" THEN Regex_parse_string(r[3], suffix)
                ELSE Regex_parse_string(r, suffix)
    IN  IF IsDiverges(head) THEN head
        ELSE IF ~head.ok THEN Regex_split_loop(r, string, i + 1)
        ELSE IF IsDiverges(tail) THEN tail
        ELSE IF tail.ok THEN Ok(TRUE)
        ELSE Regex_split_loop(r, string, i + 1)

Regex_split_loop(r, string, i) ==
    IF i > Len(string) THEN Ok(FALSE)
    ELSE
    LET prefix == SubSeq(string, 1, i)
        suffix == SubSeq(string, i + 1, Len(string))
        head == Regex_parse_string(r[2], prefix)
        tail == IF r[1] = "Concat" THEN Regex_parse_string(r[3], suffix)
                ELSE IF i = 0 THEN Diverges
                ELSE Regex_parse_string(r, suffix)
    IN  IF IsDiverges(head) THEN head
        ELSE IF ~head.ok THEN Regex_split_loop(r, string, i + 1)
        ELSE IF IsDiverges(tail) THEN tail
        ELSE IF tail.ok THEN Ok(TRUE)
        ELSE Regex_split_loop(r, string, i + 1)

(***************************************************************************)
(* conversions.rs                                                          *)
(***************************************************************************)
dfa_to_nfa(D) ==
    Nfa(D.states, D.alphabet, D.start_state,
        [k \in DOMAIN D.transitions |-> {D.transitions[k]}], EmptyMap, D.accepting)

\* the state of the worklist loop of nfa_to_dfa when it is entered
nfa_to_dfa_init(N) ==
    [states |-> {}, transitions |-> EmptyMap, accepting |-> {},
     to_explore |-> <<Nfa_epsilon_closure(N, {N.start_state})>>]

\* mutant: the target set is not closed under epsilon edges
nfa_to_dfa_step_unclosed(N, st) ==
    LET n == Len(st.to_explore)
        state == st.to_explore[n]
        rest == SubSeq(st.to_explore, 1, n - 1)
        chars == SetToSeq(N.alphabet)
        target(char) == UNION {Nfa_step(N, input, char) : input \in state}
    IN  IF state \in st.states THEN [st EXCEPT !.to_explore = rest]
        ELSE [states |-> st.states \cup {state},
              accepting |-> IF \E s \in state : s \in N.accepting
                            THEN st.accepting \cup {state} ELSE st.accepting,
              transitions |-> [k \in {state} \X N.alphabet |-> target(k[2])]
                                  @@ st.transitions,
              to_explore |-> rest \o [i \in 1..Len(chars) |-> target(chars[i])]]

\* mutant: the targets are recorded in the table but never pushed
nfa_to_dfa_step_unpushed(N, st) ==
    LET n == Len(st.to_explore)
        state == st.to_explore[n]
        rest == SubSeq(st.to_explore, 1, n - 1)
        actual_target(char) ==
            Nfa_epsilon_closure(N, UNION {Nfa_step(N, input, char) : input \in state})
    IN  IF state \in st.states THEN [st EXCEPT !.to_explore = rest]
        ELSE [states |-> st.states \cup {state},
              accepting |-> IF \E s \in state : s \in N.accepting
                            THEN st.accepting \cup {state} ELSE st.accepting,
              transitions |-> [k \in {state} \X N.alphabet |-> actual_target(k[2])]
                                  @@ st.transitions,
              to_explore |-> rest]

\* one iteration of the loop: pop_back, and unless the set was seen, record
\* it, its acceptance and its transition on every symbol, pushing each
\* target at the back
nfa_to_dfa_step(N, st) ==
    LET n == Len(st.to_explore)
        state == st.to_explore[n]
        rest == SubSeq(st.to_explore, 1, n - 1)
        chars == SetToSeq(N.alphabet)
        actual_target(char) ==
            Nfa_epsilon_closure(N, UNION {Nfa_step(N, input, char) : input \in state})
    IN  IF state \in st.states THEN [st EXCEPT !.to_explore = rest]
        ELSE [states |-> st.states \cup {state},
              accepting |-> IF \E s \in state : s \in N.accepting
                            THEN st.accepting \cup {state} ELSE st.accepting,
              transitions |-> [k \in {state} \X N.alphabet |-> actual_target(k[2])]
                                  @@ st.transitions,
              to_explore |-> rest \o [i \in 1..Len(chars) |-> actual_target(chars[i])]]

RECURSIVE nfa_to_dfa_loop(_, _)
nfa_to_dfa_loop(N, st) ==
    IF st.to_explore = <<>> THEN st ELSE nfa_to_dfa_loop(N, nfa_to_dfa_step(N, st))

nfa_to_dfa(N) ==
    LET st == nfa_to_dfa_loop(N, nfa_to_dfa_init(N))
    IN  Dfa(st.states, N.alphabet, Nfa_epsilon_closure(N, {N.start_state}),
            st.transitions, st.accepting)

\* regex_to_nfa; h fixes the enumeration order of every relabel_states
RECURSIVE regex_to_nfa(_, _, _)
regex_to_nfa(r, alphabet, h) ==
    CASE r[1] = "Empty" -> Nfa_relabel_states(Nfa_empty(alphabet), h)
      [] r[1] = "Epsilon" -> Nfa_relabel_states(Nfa_epsilon(alphabet), h)
      [] r[1] = "Character" ->
            LET n == Nfa_character(alphabet, r[2])
            IN  IF IsPanic(n) THEN n ELSE Nfa_relabel_states(n, h)
      [] r[1] \in {"Concat", "Union"} ->
            LET left_nfa == regex_to_nfa(r[2], alphabet, h)
                right_nfa == regex_to_nfa(r[3], alphabet, h)
                n == IF r[1] = "Concat" THEN Nfa_concatenation(left_nfa, right_nfa)
                     ELSE Nfa_union(left_nfa, right_nfa)
            IN  IF IsPanic(left_nfa) THEN left_nfa
                ELSE IF IsPanic(right_nfa) THEN right_nfa
                ELSE IF IsPanic(n) THEN n
                ELSE Nfa_relabel_states(n, h)
      [] r[1] = "Star" ->
            LET contents_nfa == regex_to_nfa(r[2], alphabet, h)
            IN  IF IsPanic(contents_nfa) THEN contents_nfa
                ELSE Nfa_relabel_states(Nfa_star(contents_nfa), h)

regex_to_dfa(r, alphabet, h) ==
    LET n == regex_to_nfa(r, alphabet, h)
    IN  IF IsPanic(n) THEN n ELSE Dfa_relabel_states(nfa_to_dfa(n), h)

(***************************************************************************)
(* Operand universes and acceptance.                                       *)
(***************************************************************************)
\* every DFA of the data model with state set S and alphabet A: a total
\* table on S \X A, any start state, any accepting set
Dfas(S, A) ==
    {Dfa(S, A, q, t, F) : q \in S, t \in [S \X A -> S], F \in SUBSET S}

\* the state labels of the DFA operands of SpecDfa
DfaStateIds == {0, 1, 2}

DfaOperands == Dfas(DfaStateIds, Chars)

\* D accepts string: the run of the parse_string loop from start_state ends
\* in a state of D.accepting
DfaAccepts(D, string) ==
    LET end == Dfa_run(D, D.start_state, string)
    IN  ~IsPanic(end) /\ end.ok \in D.accepting

\* the strings of the bounded universe over the alphabet of D
StringsOver(A) == StringsUpTo(A, MaxLen)

\* the values the variables hold in a specification that does not use them
Unused == [unused |-> TRUE]

(***************************************************************************)
(* SpecDfa: the operations on one DFA.  dfa is the operand, out the call   *)
(* last made and its result.                                               *)
(***************************************************************************)
InitDfa ==
    /\ dfa \in DfaOperands
    /\ out = NoCall
    /\ regex = Unused /\ nfa = Unused /\ nfa2 = Unused /\ dfa2 = Unused /\ seed = Unused

Call(op, val) == [op |-> op, val |-> val]

\* the call last made is op
HasCall(op) == "op" \in DOMAIN out /\ out.op = op

\* Dfa::empty(alphabet) and Dfa::complete(alphabet): the automaton
\* constructed becomes the operand
DfaEmpty ==
    /\ out = NoCall
    /\ \E alphabet \in SUBSET Chars :
          /\ dfa' = Dfa_empty(alphabet)
          /\ out' = Call("empty", dfa')
    /\ UNCHANGED <<regex, nfa, nfa2, dfa2, seed>>

DfaComplete ==
    /\ out = NoCall
    /\ \E alphabet \in SUBSET Chars :
          /\ dfa' = Dfa_complete(alphabet)
          /\ out' = Call("complete", dfa')
    /\ UNCHANGED <<regex, nfa, nfa2, dfa2, seed>>

\* is_empty() and is_complete() called on the automaton just constructed
DfaIsEmptyOfNew ==
    /\ HasCall("empty") \/ HasCall("complete")
    /\ out' = [op |-> "is_empty", of |-> out.op, val |-> Dfa_is_empty(dfa)]
    /\ UNCHANGED <<regex, nfa, nfa2, dfa, dfa2, seed>>

DfaIsCompleteOfNew ==
    /\ HasCall("empty") \/ HasCall("complete")
    /\ out' = [op |-> "is_complete", of |-> out.op, val |-> Dfa_is_complete(dfa)]
    /\ UNCHANGED <<regex, nfa, nfa2, dfa, dfa2, seed>>

\* parse_string, called on each string of the universe
DfaParseString ==
    /\ out = NoCall
    /\ out' = Call("parse_string",
                   [string \in StringsOver(dfa.alphabet) |-> Dfa_parse_string(dfa, string)])
    /\ UNCHANGED <<regex, nfa, nfa2, dfa, dfa2, seed>>

DfaIsEmpty ==
    /\ out = NoCall
    /\ out' = [op |-> "is_empty", of |-> "dfa", val |-> Dfa_is_empty(dfa)]
    /\ UNCHANGED <<regex, nfa, nfa2, dfa, dfa2, seed>>

DfaIsComplete ==
    /\ out = NoCall
    /\ out' = [op |-> "is_complete", of |-> "dfa", val |-> Dfa_is_complete(dfa)]
    /\ UNCHANGED <<regex, nfa, nfa2, dfa, dfa2, seed>>

DfaComplement ==
    /\ out = NoCall
    /\ out' = Call("complement", Dfa_complement(dfa))
    /\ UNCHANGED <<regex, nfa, nfa2, dfa, dfa2, seed>>

\* complement() called on the result of complement()
DfaComplementAgain ==
    /\ HasCall("complement")
    /\ out' = Call("complement.complement", Dfa_complement(out.val))
    /\ UNCHANGED <<regex, nfa, nfa2, dfa, dfa2, seed>>

\* relabel_states, under every enumeration order of the reachable states
DfaRelabelStates ==
    /\ out = NoCall
    /\ \E h \in 0..(Factorial(Cardinality(dfa.states)) - 1) :
          out' = Call("relabel_states", Dfa_relabel_states(dfa, h))
    /\ UNCHANGED <<regex, nfa, nfa2, dfa, dfa2, seed>>

NextDfa ==
    \/ DfaEmpty
    \/ DfaComplete
    \/ DfaIsEmptyOfNew
    \/ DfaIsCompleteOfNew
    \/ DfaParseString
    \/ DfaIsEmpty
    \/ DfaIsComplete
    \/ DfaComplement
    \/ DfaComplementAgain
    \/ DfaRelabelStates

SpecDfa == InitDfa /\ [][NextDfa]_vars

(***************************************************************************)
(* Claims on SpecDfa.                                                      *)
(***************************************************************************)
\* the states of D that some string reaches from start_state (a string no
\* longer than the number of states reaches each of them)
Reached(D) ==
    {Dfa_run(D, D.start_state, w).ok : w \in StringsUpTo(D.alphabet, Cardinality(D.states))}

\* C5: complement(D) accepts exactly the strings D rejects, and
\* complement(complement(D)) is D itself, field by field
Thm_C5 ==
    /\ HasCall("complement") =>
          \A w \in StringsOver(dfa.alphabet) :
              DfaAccepts(out.val, w) <=> ~DfaAccepts(dfa, w)
    /\ HasCall("complement.complement") =>
          /\ out.val = dfa
          /\ \A w \in StringsOver(dfa.alphabet) :
                DfaAccepts(out.val, w) <=> DfaAccepts(dfa, w)

\* complement has been applied twice to a DFA that accepts some strings and
\* rejects others
Wit_C5 ==
    /\ HasCall("complement.complement")
    /\ \E w \in StringsOver(dfa.alphabet) : DfaAccepts(dfa, w)
    /\ \E w \in StringsOver(dfa.alphabet) : ~DfaAccepts(dfa, w)

\* C7: relabel_states() returns a DFA that accepts the same strings, whose
\* state set is 0..n-1 for n the number of reachable states of D, and that is
\* total with every state reachable
Thm_C7 ==
    HasCall("relabel_states") =>
        /\ ~IsPanic(out.val)
        /\ out.val.states = 0..(Cardinality(Reached(dfa)) - 1)
        /\ out.val.alphabet = dfa.alphabet
        /\ Dfa_validate(out.val)
        /\ DOMAIN out.val.transitions = out.val.states \X out.val.alphabet
        /\ Reached(out.val) = out.val.states
        /\ \A w \in StringsOver(dfa.alphabet) :
              DfaAccepts(out.val, w) <=> DfaAccepts(dfa, w)

\* a DFA with an unreachable state and two reachable ones, one of them
\* accepting, has been relabelled
Wit_C7 ==
    /\ HasCall("relabel_states")
    /\ ~IsPanic(out.val)
    /\ Cardinality(out.val.states) >= 2
    /\ Cardinality(out.val.states) < Cardinality(dfa.states)
    /\ out.val.accepting # {} /\ out.val.accepting # out.val.states

\* C9: is_empty() is true iff no string is accepted, is_complete() is true
\* iff every string is accepted; neither answer changes when unreachable
\* states are added to or removed from the accepting set; empty(A) is empty,
\* complete(A) is not empty and is complete
Thm_C9 ==
    /\ (HasCall("is_empty") /\ out.of = "dfa") =>
          /\ out.val = Ok(\A w \in StringsOver(dfa.alphabet) : ~DfaAccepts(dfa, w))
          /\ \A X \in SUBSET (dfa.states \ Reached(dfa)) :
                Dfa_is_empty([dfa EXCEPT !.accepting = @ \cup X]) = out.val
    /\ (HasCall("is_complete") /\ out.of = "dfa") =>
          /\ out.val = Ok(\A w \in StringsOver(dfa.alphabet) : DfaAccepts(dfa, w))
          /\ \A X \in SUBSET (dfa.states \ Reached(dfa)) :
                Dfa_is_complete([dfa EXCEPT !.accepting = @ \ X]) = out.val
    /\ (HasCall("is_empty") /\ out.of = "empty") => out.val = Ok(TRUE)
    /\ (HasCall("is_empty") /\ out.of = "complete") => out.val = Ok(FALSE)
    /\ (HasCall("is_complete") /\ out.of = "complete") => out.val = Ok(TRUE)

\* is_empty() has answered true on a DFA that has an accepting state, which
\* is unreachable
Wit_C9 ==
    /\ HasCall("is_empty") /\ out.of = "dfa"
    /\ out.val = Ok(TRUE)
    /\ dfa.accepting # {}

\* C10: parse_string(w) reports true iff the run over w from start_state
\* ends in an accepting state, and false otherwise
Thm_C10 ==
    HasCall("parse_string") =>
        \A w \in StringsOver(dfa.alphabet) :
            /\ out.val[w] = Ok("true") <=> DfaAccepts(dfa, w)
            /\ out.val[w] = Ok("false") <=> ~DfaAccepts(dfa, w)

(***************************************************************************)
(* SpecRegex: the compilation pipeline and the reference matcher.  regex   *)
(* is the tree, seed the enumeration order of the relabel_states calls,    *)
(* dfa the result of regex_to_dfa and out the call of Regex::parse_string. *)
(***************************************************************************)
InitRegex ==
    /\ regex \in Regexes
    /\ seed \in 0..MaxSeed
    /\ dfa = NoCall
    /\ out = NoCall
    /\ nfa = Unused /\ nfa2 = Unused /\ dfa2 = Unused

RegexToDfa ==
    /\ dfa = NoCall
    /\ dfa' = regex_to_dfa(regex, Sigma, seed)
    /\ UNCHANGED <<regex, nfa, nfa2, dfa2, seed, out>>

\* parse_string, called on each string of the universe
RegexParseString ==
    /\ out = NoCall
    /\ out' = Call("parse_string",
                   [string \in StringsOver(Sigma) |-> Regex_parse_string(regex, string)])
    /\ UNCHANGED <<regex, nfa, nfa2, dfa, dfa2, seed>>

NextRegex ==
    \/ RegexToDfa
    \/ RegexParseString

SpecRegex == InitRegex /\ [][NextRegex]_vars

\* the variable holds an automaton
IsBuilt(x) == "states" \in DOMAIN x

\* string belongs to the regular language of r: Empty has no string, Epsilon
\* the empty string, Character(c) the string c, Concat the concatenations,
\* Union the union, Star zero or more repetitions
RECURSIVE InLanguage(_, _)
InLanguage(r, string) ==
    LET prefix(i) == SubSeq(string, 1, i)
        suffix(i) == SubSeq(string, i + 1, Len(string))
    IN  CASE r[1] = "Empty" -> FALSE
          [] r[1] = "Epsilon" -> string = <<>>
          [] r[1] = "Character" -> string = <<r[2]>>
          [] r[1] = "Concat" ->
                \E i \in 0..Len(string) :
                    InLanguage(r[2], prefix(i)) /\ InLanguage(r[3], suffix(i))
          [] r[1] = "Union" -> InLanguage(r[2], string) \/ InLanguage(r[3], string)
          [] r[1] = "Star" ->
                \/ string = <<>>
                \/ \E i \in 1..Len(string) :
                      InLanguage(r[2], prefix(i)) /\ InLanguage(r, suffix(i))

\* C1: whenever Regex::parse_string returns on w, regex_to_dfa(r) accepts w
\* iff it returned true
Thm_C1 ==
    (IsBuilt(dfa) /\ HasCall("parse_string")) =>
        \A w \in StringsOver(Sigma) :
            ~IsDiverges(out.val[w]) => (DfaAccepts(dfa, w) <=> out.val[w] = Ok(TRUE))

\* C2: regex_to_dfa(r) accepts exactly the strings of the regular language
\* of r; for Concat(Character(a), Star(Character(b))) it accepts a, ab, abb
\* and rejects the empty string, b, ba
Thm_C2 ==
    dfa # NoCall =>
        /\ IsBuilt(dfa)
        /\ \A w \in StringsOver(Sigma) : DfaAccepts(dfa, w) <=> InLanguage(regex, w)
        /\ regex = Concat(Character("a"), Star(Character("b"))) =>
              /\ \A w \in {<<"a">>, <<"a", "b">>, <<"a", "b", "b">>} : DfaAccepts(dfa, w)
              /\ \A w \in {<<>>, <<"b">>, <<"b", "a">>} : ~DfaAccepts(dfa, w)

\* Concat(Character(a), Star(Character(b))) has been compiled and its DFA
\* accepts abb
Wit_C2 ==
    /\ regex = Concat(Character("a"), Star(Character("b")))
    /\ IsBuilt(dfa)
    /\ DfaAccepts(dfa, <<"a", "b", "b">>)

(***************************************************************************)
(* SpecNfa: the subset construction against the NFA simulation.  nfa is    *)
(* the operand, dfa the result of nfa_to_dfa, and out the answers of       *)
(* Nfa::parse_string, one call per string of the universe.                 *)
(***************************************************************************)
\* the state labels of the NFA operands
NfaStateIds == {0, 1, 2}

\* the label of an epsilon edge in an edge set
Eps == "eps"

\* the subsets of S of at most k elements
RECURSIVE SubsetsUpTo(_, _)
SubsetsUpTo(S, k) ==
    IF k = 0 THEN {{}}
    ELSE LET P == SubsetsUpTo(S, k - 1)
         IN  P \cup {p \cup {x} : p \in P, x \in S}

\* the NFA over A with states S, start q, accepting F and the edges E, each
\* <<source, symbol or Eps, target>>: a key is present in a table iff an
\* edge leaves it
NfaOfEdges(S, A, q, F, E) ==
    Nfa(S, A, q,
        [k \in {<<e[1], e[2]>> : e \in {e \in E : e[2] # Eps}} |->
            {e[3] : e \in {e \in E : e[1] = k[1] /\ e[2] = k[2]}}],
        [s \in {e[1] : e \in {e \in E : e[2] = Eps}} |->
            {e[3] : e \in {e \in E : e[1] = s /\ e[2] = Eps}}],
        F)

\* the start state is 0: the universe is closed under renaming the states
NfaOperands ==
    {NfaOfEdges(NfaStateIds, Chars, 0, F, E) :
        F \in SUBSET NfaStateIds,
        E \in SubsetsUpTo(NfaStateIds \X (Chars \cup {Eps}) \X NfaStateIds, MaxEdges)}

InitNfa ==
    /\ nfa \in NfaOperands
    /\ dfa = NoCall
    /\ out = NoCall
    /\ regex = Unused /\ nfa2 = Unused /\ dfa2 = Unused /\ seed = Unused

NfaToDfa ==
    /\ dfa = NoCall
    /\ dfa' = nfa_to_dfa(nfa)
    /\ UNCHANGED <<regex, nfa, nfa2, dfa2, seed, out>>

NfaParseString ==
    /\ out = NoCall
    /\ out' = Call("parse_string",
                   [string \in StringsOver(nfa.alphabet) |-> Nfa_parse_string(nfa, string)])
    /\ UNCHANGED <<regex, nfa, nfa2, dfa, dfa2, seed>>

NextNfa ==
    \/ NfaToDfa
    \/ NfaParseString

SpecNfa == InitNfa /\ [][NextNfa]_vars

\* C3: N.parse_string(w) is true iff nfa_to_dfa(N) accepts w, and a state of
\* nfa_to_dfa(N) is accepting iff it contains an accepting state of N
Thm_C3 ==
    IsBuilt(dfa) =>
        /\ HasCall("parse_string") =>
              \A w \in StringsOver(nfa.alphabet) : out.val[w] <=> DfaAccepts(dfa, w)
        /\ \A S \in dfa.states : S \in dfa.accepting <=> S \cap nfa.accepting # {}

\* an NFA with epsilon edges whose DFA has three or more states has been
\* converted and simulated, and it accepts some strings and rejects others
Wit_C3 ==
    /\ IsBuilt(dfa)
    /\ HasCall("parse_string")
    /\ DOMAIN nfa.epsilon_transitions # {}
    /\ Cardinality(dfa.states) >= 3
    /\ \E w \in StringsOver(nfa.alphabet) : out.val[w]
    /\ \E w \in StringsOver(nfa.alphabet) : ~out.val[w]

(***************************************************************************)
(* SpecPair: the product construction on two DFAs over one alphabet.  dfa  *)
(* and dfa2 are the operands, of different state types; out is the call    *)
(* last made and its result.                                               *)
(***************************************************************************)
\* the state labels of the two operands
FirstStateIds == {0, 1}

SecondStateIds == {"p", "q"}

\* the operands start in 0 and in p: the universes are closed under
\* renaming the states
FirstOperands == {D \in Dfas(FirstStateIds, Chars) : D.start_state = 0}

SecondOperands == {D \in Dfas(SecondStateIds, Chars) : D.start_state = "p"}

InitPair ==
    /\ dfa \in FirstOperands
    /\ dfa2 \in SecondOperands
    /\ out = NoCall
    /\ regex = Unused /\ nfa = Unused /\ nfa2 = Unused /\ seed = Unused

PairProduct ==
    /\ out = NoCall
    /\ \E func \in [BOOLEAN \X BOOLEAN -> BOOLEAN] :
          out' = [op |-> "product", func |-> func, val |-> Dfa_product(dfa, dfa2, func)]
    /\ UNCHANGED <<regex, nfa, nfa2, dfa, dfa2, seed>>

PairUnion ==
    /\ out = NoCall
    /\ out' = Call("union", Dfa_union(dfa, dfa2))
    /\ UNCHANGED <<regex, nfa, nfa2, dfa, dfa2, seed>>

PairIntersection ==
    /\ out = NoCall
    /\ out' = Call("intersection", Dfa_intersection(dfa, dfa2))
    /\ UNCHANGED <<regex, nfa, nfa2, dfa, dfa2, seed>>

PairDifference ==
    /\ out = NoCall
    /\ out' = Call("difference", Dfa_difference(dfa, dfa2))
    /\ UNCHANGED <<regex, nfa, nfa2, dfa, dfa2, seed>>

PairSymmetricDifference ==
    /\ out = NoCall
    /\ out' = Call("symmetric_difference", Dfa_symmetric_difference(dfa, dfa2))
    /\ UNCHANGED <<regex, nfa, nfa2, dfa, dfa2, seed>>

PairEquivalent ==
    /\ out = NoCall
    /\ out' = Call("equivalent", Dfa_equivalent(dfa, dfa2))
    /\ UNCHANGED <<regex, nfa, nfa2, dfa, dfa2, seed>>

NextPair ==
    \/ PairProduct
    \/ PairUnion
    \/ PairIntersection
    \/ PairDifference
    \/ PairSymmetricDifference
    \/ PairEquivalent

SpecPair == InitPair /\ [][NextPair]_vars

\* the result of the call accepts w iff expected(A accepts w, B accepts w)
AcceptsAsCombined(expected) ==
    /\ IsBuilt(out.val)
    /\ \A w \in StringsOver(dfa.alphabet) :
          DfaAccepts(out.val, w) <=> expected[<<DfaAccepts(dfa, w), DfaAccepts(dfa2, w)>>]

\* C4: union accepts w iff A or B does, intersection iff both do, difference
\* iff A does and B does not, symmetric_difference iff exactly one does, and
\* product(A, B, f) iff f(A accepts w, B accepts w)
Thm_C4 ==
    /\ HasCall("union") =>
          AcceptsAsCombined([p \in BOOLEAN \X BOOLEAN |-> p[1] \/ p[2]])
    /\ HasCall("intersection") =>
          AcceptsAsCombined([p \in BOOLEAN \X BOOLEAN |-> p[1] /\ p[2]])
    /\ HasCall("difference") =>
          AcceptsAsCombined([p \in BOOLEAN \X BOOLEAN |-> p[1] /\ ~p[2]])
    /\ HasCall("symmetric_difference") =>
          AcceptsAsCombined([p \in BOOLEAN \X BOOLEAN |-> (p[1] /\ ~p[2]) \/ (~p[1] /\ p[2])])
    /\ HasCall("product") => AcceptsAsCombined(out.func)

\* difference has been taken of two DFAs where A accepts a string that B
\* rejects and B accepts a string that A rejects
Wit_C4 ==
    /\ HasCall("difference")
    /\ IsBuilt(out.val)
    /\ \E w \in StringsOver(dfa.alphabet) : DfaAccepts(dfa, w) /\ ~DfaAccepts(dfa2, w)
    /\ \E w \in StringsOver(dfa.alphabet) : ~DfaAccepts(dfa, w) /\ DfaAccepts(dfa2, w)

\* C6: A.equivalent(B) is true iff no string is accepted by exactly one of A
\* and B; equivalent is reflexive, symmetric and transitive
Thm_C6 ==
    HasCall("equivalent") =>
        /\ out.val = Ok(\A w \in StringsOver(dfa.alphabet) :
                            DfaAccepts(dfa, w) <=> DfaAccepts(dfa2, w))
        /\ Dfa_equivalent(dfa, dfa) = Ok(TRUE)
        /\ Dfa_equivalent(dfa2, dfa2) = Ok(TRUE)
        /\ Dfa_equivalent(dfa2, dfa) = out.val
        /\ out.val = Ok(TRUE) =>
              \A third \in Dfas(FirstStateIds, Chars) :
                  Dfa_equivalent(dfa2, third) = Dfa_equivalent(dfa, third)

\* equivalent has answered true on two DFAs with different numbers of
\* accepting states that accept some string
Wit_C6 ==
    /\ HasCall("equivalent")
    /\ out.val = Ok(TRUE)
    /\ Cardinality(dfa.accepting) # Cardinality(dfa2.accepting)
    /\ \E w \in StringsOver(dfa.alphabet) : DfaAccepts(dfa, w)

(***************************************************************************)
(* SpecErr: the contract checks.  The operands are automata the library    *)
(* itself builds, over every alphabet: either two DFAs (dfa, dfa2) or two  *)
(* NFAs (nfa, nfa2); out is the call last made and its result.             *)
(***************************************************************************)
\* the Regex trees of one or two nodes over A
SmallRegexes(A) == RegexOfSize(A, 1) \cup RegexOfSize(A, 2)

ErrDfaOperands ==
    UNION {{regex_to_dfa(r, A, 0) : r \in SmallRegexes(A)} : A \in SUBSET Chars}

ErrNfaOperands ==
    UNION {{regex_to_nfa(r, A, 0) : r \in SmallRegexes(A)} : A \in SUBSET Chars}

InitErr ==
    /\ \/ /\ dfa \in ErrDfaOperands /\ dfa2 \in ErrDfaOperands
          /\ nfa = Unused /\ nfa2 = Unused
       \/ /\ nfa \in ErrNfaOperands /\ nfa2 \in ErrNfaOperands
          /\ dfa = Unused /\ dfa2 = Unused
    /\ out = NoCall
    /\ regex = Unused /\ seed = Unused

ErrProduct ==
    /\ out = NoCall /\ IsBuilt(dfa)
    /\ \E func \in {Or, And, AndNot, NotEqual} :
          out' = [op |-> "product", func |-> func, val |-> Dfa_product(dfa, dfa2, func)]
    /\ UNCHANGED <<regex, nfa, nfa2, dfa, dfa2, seed>>

ErrUnion ==
    /\ out = NoCall /\ IsBuilt(dfa)
    /\ out' = Call("union", Dfa_union(dfa, dfa2))
    /\ UNCHANGED <<regex, nfa, nfa2, dfa, dfa2, seed>>

ErrIntersection ==
    /\ out = NoCall /\ IsBuilt(dfa)
    /\ out' = Call("intersection", Dfa_intersection(dfa, dfa2))
    /\ UNCHANGED <<regex, nfa, nfa2, dfa, dfa2, seed>>

ErrDifference ==
    /\ out = NoCall /\ IsBuilt(dfa)
    /\ out' = Call("difference", Dfa_difference(dfa, dfa2))
    /\ UNCHANGED <<regex, nfa, nfa2, dfa, dfa2, seed>>

ErrSymmetricDifference ==
    /\ out = NoCall /\ IsBuilt(dfa)
    /\ out' = Call("symmetric_difference", Dfa_symmetric_difference(dfa, dfa2))
    /\ UNCHANGED <<regex, nfa, nfa2, dfa, dfa2, seed>>

ErrEquivalent ==
    /\ out = NoCall /\ IsBuilt(dfa)
    /\ out' = Call("equivalent", Dfa_equivalent(dfa, dfa2))
    /\ UNCHANGED <<regex, nfa, nfa2, dfa, dfa2, seed>>

ErrConcatenation ==
    /\ out = NoCall /\ IsBuilt(nfa)
    /\ out' = Call("concatenation", Nfa_concatenation(nfa, nfa2))
    /\ UNCHANGED <<regex, nfa, nfa2, dfa, dfa2, seed>>

ErrNfaUnion ==
    /\ out = NoCall /\ IsBuilt(nfa)
    /\ out' = Call("nfa_union", Nfa_union(nfa, nfa2))
    /\ UNCHANGED <<regex, nfa, nfa2, dfa, dfa2, seed>>

ErrCharacter ==
    /\ out = NoCall
    /\ \E alphabet \in SUBSET Chars : \E char \in Chars :
          out' = [op |-> "character", alphabet |-> alphabet, char |-> char,
                  val |-> Nfa_character(alphabet, char)]
    /\ UNCHANGED <<regex, nfa, nfa2, dfa, dfa2, seed>>

NextErr ==
    \/ ErrProduct
    \/ ErrUnion
    \/ ErrIntersection
    \/ ErrDifference
    \/ ErrSymmetricDifference
    \/ ErrEquivalent
    \/ ErrConcatenation
    \/ ErrNfaUnion
    \/ ErrCharacter

SpecErr == InitErr /\ [][NextErr]_vars

\* the call last made is one of the DFA operations built on product
IsProductCall ==
    \E op \in {"product", "union", "intersection", "difference",
               "symmetric_difference", "equivalent"} : HasCall(op)

\* C8: product and the operations built on it, NFA concatenation and NFA
\* union panic when the alphabets of the operands differ, and character
\* panics when the symbol is not in the alphabet; the panic is raised with
\* no state of the result built.  With equal alphabets (a symbol in the
\* alphabet) the call does not panic.
Thm_C8 ==
    /\ IsProductCall =>
          IF dfa.alphabet # dfa2.alphabet
          THEN out.val = Panic("Cannot product DFA with different alphabets", {})
          ELSE ~IsPanic(out.val)
    /\ (HasCall("concatenation") \/ HasCall("nfa_union")) =>
          IF nfa.alphabet # nfa2.alphabet
          THEN out.val = Panic("Alphabets must be equal!", {})
          ELSE ~IsPanic(out.val) /\ Nfa_validate(out.val)
    /\ HasCall("character") =>
          IF out.char \notin out.alphabet
          THEN out.val = Panic("Character should be in alphabet", {})
          ELSE ~IsPanic(out.val) /\ Nfa_validate(out.val)

\* concatenation has panicked on two NFAs of two and three states whose
\* alphabets differ
Wit_C8 ==
    /\ HasCall("concatenation")
    /\ IsPanic(out.val)
    /\ nfa.alphabet # nfa2.alphabet
    /\ Cardinality(nfa.states) >= 2
    /\ Cardinality(nfa2.states) >= 3

(***************************************************************************)
(* SpecWork: nfa_to_dfa step by step.  nfa is the operand; out is the      *)
(* frame of the call while it runs (the local variables states,            *)
(* transitions, accepting and to_explore of the worklist loop); dfa is the *)
(* automaton returned.  The call runs on one thread: in every state of the *)
(* frame exactly one of WorkStep and WorkReturn is enabled, so the loop    *)
(* ends iff no run takes WorkStep for ever.                                *)
(***************************************************************************)
\* the state labels of the operand of the stepwise conversion
WorkStateIds == {0, 1}

\* the start state is 0: the universe is closed under renaming the states
WorkOperands ==
    {NfaOfEdges(WorkStateIds, Chars, 0, F, E) :
        F \in SUBSET WorkStateIds,
        E \in SubsetsUpTo(WorkStateIds \X (Chars \cup {Eps}) \X WorkStateIds, MaxEdges)}

InitWork ==
    /\ nfa \in WorkOperands
    /\ dfa = NoCall
    /\ out = NoCall
    /\ regex = Unused /\ nfa2 = Unused /\ dfa2 = Unused /\ seed = Unused

\* the call is entered: lines 36-46
WorkEnter ==
    /\ out = NoCall
    /\ out' = Call("nfa_to_dfa", nfa_to_dfa_init(nfa))
    /\ UNCHANGED <<regex, nfa, nfa2, dfa, dfa2, seed>>

\* one iteration of the loop with Some(state) popped
WorkStep ==
    /\ HasCall("nfa_to_dfa") /\ dfa = NoCall
    /\ out.val.to_explore # <<>>
    /\ out' = Call("nfa_to_dfa", nfa_to_dfa_step(nfa, out.val))
    /\ UNCHANGED <<regex, nfa, nfa2, dfa, dfa2, seed>>

\* None popped: break, and the Dfa is returned
WorkReturn ==
    /\ HasCall("nfa_to_dfa") /\ dfa = NoCall
    /\ out.val.to_explore = <<>>
    /\ dfa' = Dfa(out.val.states, nfa.alphabet, Nfa_epsilon_closure(nfa, {nfa.start_state}),
                  out.val.transitions, out.val.accepting)
    /\ UNCHANGED <<regex, nfa, nfa2, dfa2, seed, out>>

NextWork ==
    \/ WorkEnter
    \/ WorkStep
    \/ WorkReturn

SpecWork == InitWork /\ [][NextWork]_vars

\* the variant of the loop: the subsets of N.states not yet discovered,
\* each weighed more than the targets its discovery pushes, and the length of
\* the worklist
WorkVariant ==
    (Cardinality(SUBSET nfa.states) - Cardinality(out.val.states))
            * (Cardinality(nfa.alphabet) + 1)
        + Len(out.val.to_explore)

\* the DFA returned is total and well formed, and the empty set, when it is
\* a state, is a non-accepting state that loops on every symbol; a set with
\* no outgoing edge of N on a symbol goes to the empty set
WorkResultWellFormed ==
    /\ Dfa_validate(dfa)
    /\ dfa.start_state = Nfa_epsilon_closure(nfa, {nfa.start_state})
    /\ dfa.start_state \in dfa.states
    /\ \A S \in dfa.states : \A c \in nfa.alphabet :
          /\ <<S, c>> \in DOMAIN dfa.transitions
          /\ dfa.transitions[<<S, c>>] \in dfa.states
          /\ (\A s \in S : Nfa_step(nfa, s, c) = {}) => dfa.transitions[<<S, c>>] = {}
    /\ dfa.accepting \subseteq dfa.states
    /\ {} \in dfa.states =>
          /\ {} \notin dfa.accepting
          /\ \A c \in nfa.alphabet : dfa.transitions[<<{}, c>>] = {}

\* C11: the worklist loop of nfa_to_dfa terminates (every iteration lowers
\* the variant, which is a natural number, because only subsets of N.states
\* are discovered), and the DFA it returns is total and well formed
\* (validate() holds), with the empty set as a non-accepting sink
Thm_C11 ==
    /\ [][WorkStep => WorkVariant' >= 0 /\ WorkVariant' < WorkVariant]_vars
    /\ [](HasCall("nfa_to_dfa") => out.val.states \subseteq SUBSET nfa.states)
    /\ [](IsBuilt(dfa) => WorkResultWellFormed)

\* the loop has returned a DFA of three or more states, the empty set among
\* them, for an NFA with epsilon edges
Wit_C11 ==
    /\ IsBuilt(dfa)
    /\ HasCall("nfa_to_dfa")
    /\ {} \in dfa.states
    /\ Cardinality(dfa.states) >= 3
    /\ DOMAIN nfa.epsilon_transitions # {}

(***************************************************************************)
(* Termination of Regex::parse_string (SpecRegex)                          *)
(***************************************************************************)
\* the operands of the Star nodes of r
RECURSIVE StarOperands(_)
StarOperands(r) ==
    CASE r[1] \in {"Empty", "Epsilon", "Character"} -> {}
      [] r[1] \in {"Concat", "Union"} -> StarOperands(r[2]) \cup StarOperands(r[3])
      [] r[1] = "Star" -> {r[2]} \cup StarOperands(r[2])

\* parse_string returns true on the empty string
AcceptsEmptyString(r) == Regex_parse_string(r, <<>>) = Ok(TRUE)

\* C12: parse_string returns on every string when no Star operand of the
\* tree accepts the empty string, and on Star(R) with R accepting the empty
\* string it re-enters itself on the same string at the split i = 0 and
\* returns on no string
Thm_C12 ==
    HasCall("parse_string") =>
        /\ (\A R \in StarOperands(regex) : ~AcceptsEmptyString(R)) =>
              \A w \in StringsOver(Sigma) : ~IsDiverges(out.val[w])
        /\ (regex[1] = "Star" /\ AcceptsEmptyString(regex[2])) =>
              \A w \in StringsOver(Sigma) : IsDiverges(out.val[w])

\* parse_string has been called on a Star whose operand is a Union that
\* accepts the empty string, and it returned on no string
Wit_C12 ==
    /\ HasCall("parse_string")
    /\ regex[1] = "Star" /\ regex[2][1] = "Union"
    /\ AcceptsEmptyString(regex[2])
    /\ \A w \in StringsOver(Sigma) : IsDiverges(out.val[w])

\* parse_string has returned on every string for a tree with a Star under
\* a Concat, none of whose Star operands accepts the empty string
Wit_C12_returns ==
    /\ HasCall("parse_string")
    /\ regex[1] = "Concat" /\ StarOperands(regex) # {}
    /\ \A R \in StarOperands(regex) : ~AcceptsEmptyString(R)
    /\ \A w \in StringsOver(Sigma) : ~IsDiverges(out.val[w])

(***************************************************************************)
(* SpecStray: validate() followed by relabel_states() on automata whose    *)
(* tables hold any entries.  The fields of Dfa and Nfa are public, so a    *)
(* table may hold keys outside states x alphabet and targets outside       *)
(* states.  Exactly one of dfa and nfa is the operand; out is the call     *)
(* last made and its result.                                               *)
(***************************************************************************)
\* the states and the alphabet of the operands, a label that is no state
\* and a symbol that is not in the alphabet
StrayStateIds == {0, 1}

StrayAlphabet == {"a"}

StrayTargets == StrayStateIds \cup {2}

StrayChars == StrayAlphabet \cup {"b"}

\* a DFA with an entry for every state and symbol and any entries for the
\* symbol outside the alphabet
StrayDfaOperands ==
    UNION {{Dfa(StrayStateIds, StrayAlphabet, 0, t, F) :
                t \in [(StrayStateIds \X StrayAlphabet) \cup X -> StrayTargets],
                F \in SUBSET StrayStateIds} :
           X \in SUBSET (StrayStateIds \X (StrayChars \ StrayAlphabet))}

StrayNfaOperands ==
    {NfaOfEdges(StrayStateIds, StrayAlphabet, 0, F, E) :
        F \in SUBSET StrayStateIds,
        E \in SubsetsUpTo(StrayStateIds \X (StrayChars \cup {Eps}) \X StrayTargets, MaxEdges)}

InitStray ==
    /\ \/ dfa \in StrayDfaOperands /\ nfa = Unused
       \/ nfa \in StrayNfaOperands /\ dfa = Unused
    /\ out = NoCall
    /\ regex = Unused /\ nfa2 = Unused /\ dfa2 = Unused /\ seed = Unused

StrayDfaValidate ==
    /\ out = NoCall /\ dfa # Unused
    /\ out' = Call("validate", Dfa_validate(dfa))
    /\ UNCHANGED <<regex, nfa, nfa2, dfa, dfa2, seed>>

StrayNfaValidate ==
    /\ out = NoCall /\ nfa # Unused
    /\ out' = Call("validate", Nfa_validate(nfa))
    /\ UNCHANGED <<regex, nfa, nfa2, dfa, dfa2, seed>>

\* relabel_states() of an automaton on which validate() returned true, under
\* every enumeration order of the reachable states
StrayDfaRelabelStates ==
    /\ HasCall("validate") /\ out.val /\ dfa # Unused
    /\ \E h \in 0..(Factorial(Cardinality(dfa.states)) - 1) :
          out' = Call("validate.relabel_states", Dfa_relabel_states(dfa, h))
    /\ UNCHANGED <<regex, nfa, nfa2, dfa, dfa2, seed>>

StrayNfaRelabelStates ==
    /\ HasCall("validate") /\ out.val /\ nfa # Unused
    /\ \E h \in 0..(Factorial(Cardinality(nfa.states)) - 1) :
          out' = Call("validate.relabel_states", Nfa_relabel_states(nfa, h))
    /\ UNCHANGED <<regex, nfa, nfa2, dfa, dfa2, seed>>

NextStray ==
    \/ StrayDfaValidate
    \/ StrayNfaValidate
    \/ StrayDfaRelabelStates
    \/ StrayNfaRelabelStates

SpecStray == InitStray /\ [][NextStray]_vars

\* C13: on a DFA or an NFA on which validate() returned true,
\* relabel_states() returns an automaton: no lookup of a transition target
\* or of the start state in the old-to-new map fails
Thm_C13 ==
    HasCall("validate.relabel_states") => ~IsPanic(out.val)

(***************************************************************************)
(* SpecThompson: concatenation, union and star on NFAs that use the same   *)
(* state labels.  nfa and nfa2 are the operands; out is the call last made *)
(* and its result.                                                         *)
(***************************************************************************)
\* the state labels of both operands, and their alphabet
ThompsonStateIds == {0, 1}

ThompsonAlphabet == {"a"}

\* the start state is 0: the universe is closed under renaming the states
ThompsonOperands ==
    {NfaOfEdges(ThompsonStateIds, ThompsonAlphabet, 0, F, E) :
        F \in SUBSET ThompsonStateIds,
        E \in SubsetsUpTo(ThompsonStateIds \X (ThompsonAlphabet \cup {Eps}) \X ThompsonStateIds,
                          MaxEdges)}

InitThompson ==
    /\ nfa \in ThompsonOperands
    /\ nfa2 \in ThompsonOperands
    /\ out = NoCall
    /\ regex = Unused /\ dfa = Unused /\ dfa2 = Unused /\ seed = Unused

ThompsonConcatenation ==
    /\ out = NoCall
    /\ out' = Call("concatenation", Nfa_concatenation(nfa, nfa2))
    /\ UNCHANGED <<regex, nfa, nfa2, dfa, dfa2, seed>>

ThompsonUnion ==
    /\ out = NoCall
    /\ out' = Call("union", Nfa_union(nfa, nfa2))
    /\ UNCHANGED <<regex, nfa, nfa2, dfa, dfa2, seed>>

ThompsonStar ==
    /\ out = NoCall
    /\ out' = Call("star", Nfa_star(nfa))
    /\ UNCHANGED <<regex, nfa, nfa2, dfa, dfa2, seed>>

NextThompson ==
    \/ ThompsonConcatenation
    \/ ThompsonUnion
    \/ ThompsonStar

SpecThompson == InitThompson /\ [][NextThompson]_vars

\* the edges of N: <<source, symbol or Eps, target>>
EdgesOf(N) ==
    UNION {{<<k[1], k[2], t>> : t \in N.transitions[k]} : k \in DOMAIN N.transitions}
        \cup UNION {{<<s, Eps, t>> : t \in N.epsilon_transitions[s]} :
                       s \in DOMAIN N.epsilon_transitions}

\* the edges of E between the copies, injected by the variant tag, of their
\* ends
InjectedEdges(E, tag) == {<<<<tag, e[1]>>, e[2], <<tag, e[3]>>>> : e \in E}

\* C14: with operands over equal alphabets that use the same state labels,
\* concatenation has |A.states| + |B.states| states, union one more and
\* star 1 + |A.states|; the edges of the result are the edges of each
\* operand inside its injected copy and the epsilon edges of the
\* construction, and nothing else; the result satisfies validate()
Thm_C14 ==
    /\ HasCall("concatenation") =>
          /\ IsBuilt(out.val)
          /\ Cardinality(out.val.states)
                 = Cardinality(nfa.states) + Cardinality(nfa2.states)
          /\ EdgesOf(out.val)
                 = InjectedEdges(EdgesOf(nfa), "Left")
                       \cup InjectedEdges(EdgesOf(nfa2), "Right")
                       \cup {<<Left(s), Eps, Right(nfa2.start_state)>> : s \in nfa.accepting}
          /\ Nfa_validate(out.val)
    /\ HasCall("union") =>
          /\ IsBuilt(out.val)
          /\ Cardinality(out.val.states)
                 = 1 + Cardinality(nfa.states) + Cardinality(nfa2.states)
          /\ EdgesOf(out.val)
                 = InjectedEdges(EdgesOf(nfa), "First")
                       \cup InjectedEdges(EdgesOf(nfa2), "Second")
                       \cup {<<Start, Eps, First(nfa.start_state)>>,
                             <<Start, Eps, Second(nfa2.start_state)>>}
          /\ Nfa_validate(out.val)
    /\ HasCall("star") =>
          /\ IsBuilt(out.val)
          /\ Cardinality(out.val.states) = 1 + Cardinality(nfa.states)
          /\ EdgesOf(out.val)
                 = InjectedEdges(EdgesOf(nfa), "Old")
                       \cup {<<Start, Eps, Old(nfa.start_state)>>}
                       \cup {<<Old(s), Eps, Old(nfa.start_state)>> : s \in nfa.accepting}
          /\ Nfa_validate(out.val)

\* union has been called on two valid operands with the same state labels,
\* different edges and the same source, symbol and target labels in use
Wit_C14 ==
    /\ HasCall("union")
    /\ Nfa_validate(nfa) /\ Nfa_validate(nfa2)
    /\ nfa.states = nfa2.states
    /\ nfa.alphabet = nfa2.alphabet
    /\ EdgesOf(nfa) # EdgesOf(nfa2)
    /\ EdgesOf(nfa) \cap EdgesOf(nfa2) # {}
    /\ Cardinality(out.val.states) = 5

====
